---- MODULE Spec2Model ----
(***************************************************************************)
(* Model of SDChecker: SystemDiagnosticsTool.py (collector, formatter,     *)
(* presenter, exporter) and sdchecker.py (the minimal one-shot printer).   *)
(*                                                                         *)
(* Byte counts are unbounded Python ints; they are kept here as sequences  *)
(* of base-1024 digits, least significant first, so that counts up to and  *)
(* beyond 1024^6 can be handled.  A float produced by "bytes /= factor"    *)
(* is the pair (digits m, exponent k) standing for m / 1024^k: the int is  *)
(* first rounded to the 53-bit mantissa of a double (ToFloat), and every   *)
(* later division by 1024 is exact.                                        *)
(***************************************************************************)
EXTENDS Integers, Sequences, FiniteSets, TLC

VARIABLES
    pc,          \* position of the run being modelled
    bytes,       \* get_size: the byte count passed in
    size_tool,   \* get_size of SystemDiagnosticsTool.py: value returned
    size_mini,   \* get_size of sdchecker.py: value returned
    partitions,  \* disks_info: what psutil.disk_partitions / disk_usage give
    disk_io,     \* disks_info: what psutil.disk_io_counters gives
    disks,       \* disks_info: value returned
    proc_table,  \* top_processes: what psutil.process_iter gives
    top,         \* top_processes: n
    processes,   \* top_processes: value returned
    if_addrs,    \* network_info: what psutil.net_if_addrs gives, in dict order
    enum_style,  \* what str() of an address family gives on this interpreter
    host,        \* what socket.gethostbyname(socket.gethostname()) does
    network,     \* network_info: value returned
    primary,     \* get_primary_ipv4: value returned
    ipv4_line,   \* pretty_print: the IPv4 line printed
    disk_entry,  \* pretty_print: a partition entry of the report
    gpu_entry,   \* pretty_print: a GPU entry of the report
    rendered,    \* pretty_print: the disk line and the GPU line printed
    args,        \* main: the parsed command line
    env,         \* main: what the data sources do during this run
    report,      \* main: the value collect_all returned
    file,        \* main: the contents of system_report.json
    trace        \* main: the calls made so far, in order

vars == <<pc, bytes, size_tool, size_mini, partitions, disk_io, disks,
          proc_table, top, processes,
          if_addrs, enum_style, host, network, primary, ipv4_line,
          disk_entry, gpu_entry, rendered, args, env, report, file, trace>>

sizeVars == <<bytes, size_tool, size_mini>>
diskVars == <<partitions, disk_io, disks>>
procVars == <<proc_table, top, processes>>
netVars  == <<if_addrs, enum_style, host, network, primary, ipv4_line>>
renderVars == <<disk_entry, gpu_entry, rendered>>
mainVars == <<args, env, report, file, trace>>

\* The value of a variable that holds nothing yet.
NoValue == "<unset>"
Unset == [unset |-> TRUE]
IsSet(v) == "unset" \notin DOMAIN v
\* Python's None where the other values are strings.
None == "<None>"
\* A call that ended by raising instead of returning.
Raised(exc) == [raised |-> TRUE, exception |-> exc]

(***************************************************************************)
(* Bounds and program constants                                            *)
(***************************************************************************)
\* Number of base-1024 digits of the byte counts enumerated.
MaxDigits == 7
\* factor = 1024.0 / factor = 1024
Factor == 1024
\* bits of the mantissa of the float that "bytes /= factor" produces
MantissaBits == 53

\* Values of the least significant base-1024 digit.
LowDigits == {0, 1, 128, 512, 1023}
\* Values of the most significant digit.
LeadDigits == {1, 7, 8, 512, 1023}
\* Values shared by the digits in between.
FillDigits == {0, 512, 1023}

\* The byte counts enumerated: a lowest digit, and above it either nothing or
\* p - 1 equal digits under a leading digit.  They include 0, the powers of
\* 1024, the counts one below them, 2^53 - 1 and its neighbours, and the
\* counts whose magnitude is a rounding tie.
ByteCounts ==
    { [i \in 1..MaxDigits |-> IF i = 1 THEN low ELSE 0] : low \in LowDigits }
    \cup
    { [i \in 1..MaxDigits |->
          IF i = 1 THEN low
          ELSE IF i <= p THEN fill
          ELSE IF i = p + 1 THEN lead
          ELSE 0] :
        p \in 1..(MaxDigits - 1), low \in LowDigits, fill \in FillDigits,
        lead \in LeadDigits }

(***************************************************************************)
(* Arithmetic on base-1024 digit sequences                                 *)
(***************************************************************************)
\* Index of the most significant non-zero digit, 0 for the number zero.
TopIndex(b) ==
    IF \A i \in 1..Len(b) : b[i] = 0 THEN 0
    ELSE CHOOSE i \in 1..Len(b) : b[i] # 0 /\ \A j \in (i+1)..Len(b) : b[j] = 0

\* Number of bits of a digit 0..1023.
BitLen(d) == CHOOSE n \in 0..10 : d < 2^n /\ (n = 0 \/ d >= 2^(n-1))

\* b + v * 1024^(i-1), for a small v.
RECURSIVE AddAt(_, _, _)
AddAt(b, i, v) ==
    IF v = 0 THEN b
    ELSE IF i > Len(b) THEN Append(b, v)
    ELSE LET s == b[i] + v
         IN  AddAt([b EXCEPT ![i] = s % Factor], i + 1, s \div Factor)

\* int -> float conversion done by "bytes /= factor" on an int: round to
\* MantissaBits significant bits, ties to even.
ToFloat(b) ==
    LET t == TopIndex(b) IN
    IF t = 0 THEN b
    ELSE
    LET total == 10 * (t - 1) + BitLen(b[t])
        drop  == total - MantissaBits
    IN
    IF drop <= 0 THEN b
    ELSE
    LET q     == drop \div 10
        r     == drop % 10
        c     == q + 1
        unit  == 2^r
        lowc  == b[c] % unit
        cmp   == IF r > 0
                 THEN IF lowc * 2 > unit THEN 1
                      ELSE IF lowc * 2 < unit THEN -1
                      ELSE IF \A i \in 1..q : b[i] = 0 THEN 0 ELSE 1
                 ELSE IF b[q] > Factor \div 2 THEN 1
                      ELSE IF b[q] < Factor \div 2 THEN -1
                      ELSE IF \A i \in 1..(q-1) : b[i] = 0 THEN 0 ELSE 1
        odd   == (b[c] \div unit) % 2 = 1
        trunc == [i \in 1..Len(b) |->
                    IF i < c THEN 0 ELSE IF i = c THEN b[c] - lowc ELSE b[i]]
    IN  IF cmp = 1 \/ (cmp = 0 /\ odd) THEN AddAt(trunc, c, unit) ELSE trunc

\* Mutant: abs(bytes) <= factor.
BelowOrEqualFactor(m, k) ==
    /\ \A i \in (k+3)..Len(m) : m[i] = 0
    /\ \/ k + 2 > Len(m)
       \/ m[k+2] = 0
       \/ m[k+2] = 1 /\ \A i \in 1..(k+1) : m[i] = 0

\* abs(bytes) < factor, for bytes = m / 1024^k.
BelowFactor(m, k) == \A i \in (k+2)..Len(m) : m[i] = 0

\* Integer part of m / 1024^k.
RECURSIVE IntPart(_, _)
IntPart(m, k) ==
    IF k >= Len(m) THEN 0
    ELSE m[k+1] + Factor * IntPart(m, k + 1)

\* 100 * (fractional part of m / 1024^k), as <<floor, remainder digits>>:
\* the digits 1..k multiplied by 100, carry propagated upwards.
RECURSIVE Times100(_, _, _, _, _)
Times100(m, k, i, carry, rem) ==
    IF i > k THEN <<carry, rem>>
    ELSE LET d == IF i <= Len(m) THEN m[i] ELSE 0
             t == d * 100 + carry
         IN  Times100(m, k, i + 1, t \div Factor, Append(rem, t % Factor))

(***************************************************************************)
(* String formatting                                                       *)
(***************************************************************************)
DigitChar == <<"0", "1", "2", "3", "4", "5", "6", "7", "8", "9">>

RECURSIVE IntStr(_)
IntStr(n) ==
    IF n < 10 THEN DigitChar[n + 1]
    ELSE IntStr(n \div 10) \o DigitChar[(n % 10) + 1]

\* f"{bytes:.2f}" for bytes = m / 1024^k: the exact value rounded to two
\* decimals, ties to even.
Fmt2(m, k) ==
    LET h100  == Times100(m, k, 1, 0, <<>>)
        h     == h100[1]
        rem   == h100[2]
        cmp   == IF k = 0 THEN -1
                 ELSE IF rem[k] > Factor \div 2 THEN 1
                 ELSE IF rem[k] < Factor \div 2 THEN -1
                 ELSE IF \A i \in 1..(k-1) : rem[i] = 0 THEN 0 ELSE 1
        up    == cmp = 1 \/ (cmp = 0 /\ h % 2 = 1)
        h2    == IF up THEN h + 1 ELSE h
        whole == IntPart(m, k) + (IF h2 = 100 THEN 1 ELSE 0)
        cents == IF h2 = 100 THEN 0 ELSE h2
    IN  IntStr(whole) \o "." \o DigitChar[(cents \div 10) + 1]
                             \o DigitChar[(cents % 10) + 1]

(***************************************************************************)
(* get_size                                                                *)
(***************************************************************************)
\* units = ["","K","M","G","T","P"]
Units == <<"", "K", "M", "G", "T", "P">>

\* "bytes /= factor": an int is converted to float first.
Divide(m, k) == IF k = 0 THEN ToFloat(m) ELSE m

\* SystemDiagnosticsTool.get_size, entered at unit index k with bytes = m/1024^k.
RECURSIVE SizeLoop(_, _)
SizeLoop(m, k) ==
    IF k >= Len(Units) THEN Fmt2(m, k) \o "E" \o "B"
    ELSE IF BelowFactor(m, k) THEN Fmt2(m, k) \o Units[k + 1] \o "B"
    ELSE SizeLoop(Divide(m, k), k + 1)

get_size(b) == SizeLoop(b, 0)

\* sdchecker.get_size: the same loop, with nothing returned after it.
RECURSIVE MiniLoop(_, _)
MiniLoop(m, k) ==
    IF k >= Len(Units) THEN None
    ELSE IF BelowFactor(m, k) THEN Fmt2(m, k) \o Units[k + 1] \o "B"
    ELSE MiniLoop(Divide(m, k), k + 1)

mini_get_size(b) == MiniLoop(b, 0)

(***************************************************************************)
(* Specification of the formatter: a byte count is drawn, then both        *)
(* get_size functions are applied to it.                                   *)
(***************************************************************************)
SizeIdle == bytes = <<>> /\ size_tool = NoValue /\ size_mini = NoValue
DiskIdle == partitions = <<>> /\ disk_io = Unset /\ disks = Unset
ProcIdle == proc_table = <<>> /\ top = 0 /\ processes = Unset
NetIdle ==
    /\ if_addrs = <<>> /\ enum_style = NoValue /\ host = Unset
    /\ network = Unset /\ primary = <<>> /\ ipv4_line = NoValue
RenderIdle == disk_entry = Unset /\ gpu_entry = Unset /\ rendered = Unset
MainIdle ==
    /\ args = Unset /\ env = Unset /\ report = Unset /\ file = Unset
    /\ trace = <<>>

SizeInit ==
    /\ pc = "size"
    /\ bytes \in ByteCounts
    /\ size_tool = NoValue
    /\ size_mini = NoValue
    /\ DiskIdle /\ ProcIdle /\ NetIdle /\ RenderIdle /\ MainIdle

CallGetSize ==
    /\ pc = "size"
    /\ size_tool = NoValue
    /\ size_tool' = get_size(bytes)
    /\ UNCHANGED <<pc, bytes, size_mini, diskVars, procVars, netVars,
                   renderVars, mainVars>>

CallMiniGetSize ==
    /\ pc = "size"
    /\ size_mini = NoValue
    /\ size_mini' = mini_get_size(bytes)
    /\ UNCHANGED <<pc, bytes, size_tool, diskVars, procVars, netVars,
                   renderVars, mainVars>>

SizeNext == CallGetSize \/ CallMiniGetSize

SpecSize == SizeInit /\ [][SizeNext]_vars

(***************************************************************************)
(* disks_info                                                              *)
(***************************************************************************)
\* Number of partitions psutil.disk_partitions enumerates, at most.
MaxParts == 3

\* Byte counts of the form n * 1024^e, as digit sequences.
Scaled(n, e) == [i \in 1..(e + 1) |-> IF i = e + 1 THEN n ELSE 0]

\* What psutil.disk_usage(mountpoint) does: returns a usage tuple, raises
\* PermissionError, or raises another OSError (a stale or vanished mount).
UsageOutcomes ==
    { [kind |-> "ok", total |-> Scaled(512, 3), used |-> Scaled(128, 3),
       free |-> Scaled(384, 3), percent |-> "25.0"],
      [kind |-> "ok", total |-> Scaled(2, 4), used |-> <<0, 0, 0, 512, 1>>,
       free |-> Scaled(512, 3), percent |-> "75.0"],
      [kind |-> "PermissionError"],
      [kind |-> "OSError"] }

DeviceName == <<"/dev/sda1", "/dev/sdb1", "/dev/sdc1", "/dev/sdd1", "/dev/sde1">>
MountPoint == <<"/", "/home", "/mnt/c", "/mnt/d", "/mnt/e">>

PartitionLists ==
    UNION { { [i \in 1..n |-> [device |-> DeviceName[i], mountpoint |-> MountPoint[i],
                                fstype |-> "ext4", opts |-> "rw", usage |-> u[i]]] :
                u \in [1..n -> UsageOutcomes] } : n \in 0..MaxParts }

\* psutil.disk_io_counters(perdisk=False): counters, or None on a disk-less host.
IoOutcomes ==
    { [kind |-> "none"],
      [kind |-> "ok", read_bytes |-> <<0, 0, 512, 1>>, write_bytes |-> Scaled(1, 1),
       read_count |-> 7, write_count |-> 3] }

\* One pass of the loop body: the dict appended for a partition.
PartEntry(p) ==
    LET base == [device |-> p.device, mountpoint |-> p.mountpoint,
                 fstype |-> p.fstype, opts |-> p.opts]
    IN  IF p.usage.kind = "ok"
        THEN base @@ [total |-> get_size(p.usage.total),
                      used |-> get_size(p.usage.used),
                      free |-> get_size(p.usage.free),
                      percent |-> p.usage.percent]
        ELSE base @@ [error |-> "PermissionError"]

\* Mutant: the partition is skipped on PermissionError, as sdchecker.py does.
RECURSIVE PartsSkipping(_)
PartsSkipping(ps) ==
    IF ps = <<>> THEN <<>>
    ELSE IF Head(ps).usage.kind = "PermissionError" THEN PartsSkipping(Tail(ps))
    ELSE <<PartEntry(Head(ps))>> \o PartsSkipping(Tail(ps))

\* The list "parts" after the loop over the partitions.
Parts(ps) == [i \in 1..Len(ps) |-> PartEntry(ps[i])]

disks_info(ps, io) ==
    IF \E i \in 1..Len(ps) : ps[i].usage.kind = "OSError"
    THEN Raised("OSError")
    ELSE [raised |-> FALSE,
          value |->
            [partitions |-> Parts(ps),
             io_total_read  |-> IF io.kind = "ok" THEN get_size(io.read_bytes) ELSE None,
             io_total_write |-> IF io.kind = "ok" THEN get_size(io.write_bytes) ELSE None,
             io_counts_read  |-> IF io.kind = "ok" THEN IntStr(io.read_count) ELSE None,
             io_counts_write |-> IF io.kind = "ok" THEN IntStr(io.write_count) ELSE None]]

DisksInit ==
    /\ pc = "disks"
    /\ partitions \in PartitionLists
    /\ disk_io \in IoOutcomes
    /\ disks = Unset
    /\ SizeIdle /\ ProcIdle /\ NetIdle /\ RenderIdle /\ MainIdle

CallDisksInfo ==
    /\ pc = "disks"
    /\ pc' = "disks_done"
    /\ disks' = disks_info(partitions, disk_io)
    /\ UNCHANGED <<partitions, disk_io, sizeVars, procVars, netVars,
                   renderVars, mainVars>>

DisksNext == CallDisksInfo

SpecDisks == DisksInit /\ [][DisksNext]_vars

(***************************************************************************)
(* top_processes                                                           *)
(***************************************************************************)
\* Number of processes psutil.process_iter enumerates, at most.
MaxProcs == 3
\* Largest value of --top tried.
MaxTop == 4

\* A process as the scan finds it: readable, with its cpu_percent and rss,
\* or raising NoSuchProcess / AccessDenied inside the oneshot block.
ProcOutcomes ==
    { [status |-> "ok", cpu |-> c, rss |-> r] : c \in {0, 1}, r \in {512, 2048} }
    \cup { [status |-> "NoSuchProcess", cpu |-> 0, rss |-> 0],
           [status |-> "AccessDenied", cpu |-> 0, rss |-> 0] }

ProcTables == UNION { [1..n -> ProcOutcomes] : n \in 0..MaxProcs }

\* An int below 1024^2 as a byte count.
Digits(n) == <<n % Factor, n \div Factor>>

\* The list "procs" after the scan; the pid of a process is its place in the
\* enumeration.
RECURSIVE Scan(_, _)
Scan(table, i) ==
    IF i > Len(table) THEN <<>>
    ELSE IF table[i].status = "ok"
         THEN <<[pid |-> i, cpu_percent |-> table[i].cpu,
                 memory_rss |-> table[i].rss,
                 memory_rss_human |-> get_size(Digits(table[i].rss))]>>
              \o Scan(table, i + 1)
         ELSE Scan(table, i + 1)

\* Mutant: x placed in front of the entries with an equal key.
RECURSIVE InsertFront(_, _, _)
InsertFront(s, x, key) ==
    IF s = <<>> THEN <<x>>
    ELSE IF Head(s)[key] > x[key] THEN <<Head(s)>> \o InsertFront(Tail(s), x, key)
    ELSE <<x>> \o s

\* x placed into a list sorted descending by key, behind the entries whose
\* key is not smaller.
RECURSIVE InsertDesc(_, _, _)
InsertDesc(s, x, key) ==
    IF s = <<>> THEN <<x>>
    ELSE IF Head(s)[key] >= x[key] THEN <<Head(s)>> \o InsertDesc(Tail(s), x, key)
    ELSE <<x>> \o s

RECURSIVE SortFrom(_, _, _)
SortFrom(done, rest, key) ==
    IF rest = <<>> THEN done
    ELSE SortFrom(InsertDesc(done, Head(rest), key), Tail(rest), key)

\* sorted(procs, key=lambda x: x[key], reverse=True): a stable sort.
SortedDesc(s, key) == SortFrom(<<>>, s, key)

\* s[:n] for n >= 0.
Take(s, n) == SubSeq(s, 1, IF n < Len(s) THEN n ELSE Len(s))

top_processes(table, n) ==
    LET procs == Scan(table, 1)
    IN  [top_cpu    |-> Take(SortedDesc(procs, "cpu_percent"), n),
         top_memory |-> Take(SortedDesc(procs, "memory_rss"), n)]

ProcsInit ==
    /\ pc = "procs"
    /\ proc_table \in ProcTables
    /\ top \in 0..MaxTop
    /\ processes = Unset
    /\ SizeIdle /\ DiskIdle /\ NetIdle /\ RenderIdle /\ MainIdle

CallTopProcesses ==
    /\ pc = "procs"
    /\ pc' = "procs_done"
    /\ processes' = top_processes(proc_table, top)
    /\ UNCHANGED <<proc_table, top, sizeVars, diskVars, netVars,
                   renderVars, mainVars>>

ProcsNext == CallTopProcesses

SpecProcs == ProcsInit /\ [][ProcsNext]_vars

(***************************************************************************)
(* network_info, get_primary_ipv4 and the IPv4 line of pretty_print        *)
(***************************************************************************)
\* Number of interfaces in the address table, at most.
MaxIfaces == 2
\* Number of addresses of one interface, at most.
MaxAddrs == 2

IfNames == <<"lo", "eth0", "wlan0", "tun0">>

\* Addresses psutil reports: the family is a member of socket.AddressFamily.
AddrPool ==
    { [family |-> "AF_INET",   address |-> "127.0.0.1"],
      [family |-> "AF_INET",   address |-> "192.168.1.5"],
      [family |-> "AF_INET6",  address |-> "::1"],
      [family |-> "AF_INET6",  address |-> "fe80::1"],
      [family |-> "AF_PACKET", address |-> "00:00:00:00:00:00"] }

AddrLists == UNION { [1..n -> AddrPool] : n \in 0..MaxAddrs }

AddrTables ==
    UNION { { [i \in 1..n |-> [name |-> IfNames[i], addrs |-> a[i]]] :
                a \in [1..n -> AddrLists] } : n \in 0..MaxIfaces }

\* str(addr.family): "AddressFamily.AF_INET" where an IntEnum prints its name
\* (Python up to 3.10), "2" where it prints its value (Python 3.11 and later).
EnumStyles == {"name", "value"}

FamilyNumber(family) ==
    CASE family = "AF_INET" -> "2"
      [] family = "AF_INET6" -> "10"
      [] family = "AF_PACKET" -> "17"

FamilyStr(style, family) ==
    IF style = "name" THEN "AddressFamily." \o family ELSE FamilyNumber(family)

HostOutcomes ==
    { [kind |-> "raise"],
      [kind |-> "ok", address |-> "127.0.1.1"],
      [kind |-> "ok", address |-> "192.168.1.5"] }

\* s.startswith(prefix)
StartsWith(s, prefix) ==
    Len(s) >= Len(prefix) /\ SubSeq(s, 1, Len(prefix)) = prefix

\* sub in s
Contains(s, sub) ==
    \E i \in 1..(Len(s) - Len(sub) + 1) : SubSeq(s, i, i + Len(sub) - 1) = sub

\* The report section: per interface, in the order of the table, the list of
\* address entries with the family turned into a string.
network_info(table, style) ==
    [interfaces |->
        [i \in 1..Len(table) |->
            [name  |-> table[i].name,
             addrs |-> [j \in 1..Len(table[i].addrs) |->
                          [family  |-> FamilyStr(style, table[i].addrs[j].family),
                           address |-> table[i].addrs[j].address]]]],
     stats |-> [i \in 1..Len(table) |-> [name |-> table[i].name, speed_mbps |-> "1000"]]]

\* The test applied to one address entry by get_primary_ipv4.
Accepts(a) ==
    /\ Contains(a.family, "AF_INET")
    /\ a.address # ""
    /\ ~StartsWith(a.address, "127.")

\* The nested loops of get_primary_ipv4 from interface i, address j on:
\* <<i, j>> of the first entry accepted, <<0, 0>> if none is.
RECURSIVE ScanAddrs(_, _, _)
ScanAddrs(ifs, i, j) ==
    IF i > Len(ifs) THEN <<0, 0>>
    ELSE IF j > Len(ifs[i].addrs) THEN ScanAddrs(ifs, i + 1, 1)
    ELSE IF Accepts(ifs[i].addrs[j]) THEN <<i, j>>
    ELSE ScanAddrs(ifs, i, j + 1)

get_primary_ipv4(network_report, h) ==
    LET hit == ScanAddrs(network_report.interfaces, 1, 1)
    IN  IF hit # <<0, 0>>
        THEN <<network_report.interfaces[hit[1]].addrs[hit[2]].address,
               network_report.interfaces[hit[1]].name,
               network_report.stats[hit[1]].speed_mbps>>
        ELSE IF h.kind = "ok" /\ h.address # "" /\ ~StartsWith(h.address, "127.")
        THEN <<h.address, "hostname", None>>
        ELSE <<None, None, None>>

\* pretty_print, lines 351-355.
Ipv4Line(p) ==
    IF p[1] # None /\ p[1] # "" THEN "Adres IPv4: " \o p[1] ELSE "Adres IPv4: brak"

NetInit ==
    /\ pc = "net"
    /\ if_addrs \in AddrTables
    /\ enum_style \in EnumStyles
    /\ host \in HostOutcomes
    /\ network = Unset /\ primary = <<>> /\ ipv4_line = NoValue
    /\ SizeIdle /\ DiskIdle /\ ProcIdle /\ RenderIdle /\ MainIdle

CallNetworkInfo ==
    /\ pc = "net"
    /\ pc' = "net_collected"
    /\ network' = network_info(if_addrs, enum_style)
    /\ UNCHANGED <<if_addrs, enum_style, host, primary, ipv4_line,
                   sizeVars, diskVars, procVars,
                   renderVars, mainVars>>

PrintPrimaryIpv4 ==
    /\ pc = "net_collected"
    /\ pc' = "net_printed"
    /\ primary' = get_primary_ipv4(network, host)
    /\ ipv4_line' = Ipv4Line(get_primary_ipv4(network, host))
    /\ UNCHANGED <<if_addrs, enum_style, host, network, sizeVars, diskVars, procVars,
                   renderVars, mainVars>>

NetNext == CallNetworkInfo \/ PrintPrimaryIpv4

SpecNet == NetInit /\ [][NetNext]_vars

(***************************************************************************)
(* Python values of mixed type held by report entries                      *)
(***************************************************************************)
PyNone == [kind |-> "none"]
PyStr(s) == [kind |-> "str", s |-> s]
\* A float with at most two decimals, held in hundredths.
PyFloat(h) == [kind |-> "float", hundredths |-> h]
PyDict(items) == [kind |-> "dict", items |-> items]

\* bool(v)
Truthy(v) ==
    CASE v.kind = "none" -> FALSE
      [] v.kind = "str" -> v.s # ""
      [] v.kind = "float" -> v.hundredths # 0
      [] v.kind = "dict" -> v.items # <<>>

\* repr of a float: the shortest decimal that reads back, one decimal at least.
FloatRepr(h) ==
    IntStr(h \div 100) \o "." \o
        (IF h % 10 = 0 THEN DigitChar[((h % 100) \div 10) + 1]
         ELSE DigitChar[((h % 100) \div 10) + 1] \o DigitChar[(h % 10) + 1])

\* f"{v}"
Str(v) ==
    CASE v.kind = "none" -> "None"
      [] v.kind = "str" -> v.s
      [] v.kind = "float" -> FloatRepr(v.hundredths)

\* f"{x:.1f}" of a float that is a multiple of 0.25 (exact in binary): one
\* decimal, ties to even.
Fmt1(h) ==
    LET t  == h \div 10
        r  == h % 10
        t2 == IF r > 5 \/ (r = 5 /\ t % 2 = 1) THEN t + 1 ELSE t
    IN  IntStr(t2 \div 10) \o "." \o DigitChar[(t2 % 10) + 1]

\* d.get(k)
Get(d, k) == IF k \in DOMAIN d THEN d[k] ELSE PyNone
\* Mutant: d.get(k), the default left out.
GetNoDefault(d, k, default) == IF k \in DOMAIN d THEN d[k] ELSE PyNone
\* d.get(k, default)
GetOr(d, k, default) == IF k \in DOMAIN d THEN d[k] ELSE default
\* v or w
Or(v, w) == IF Truthy(v) THEN v ELSE w

(***************************************************************************)
(* pretty_print: the line of a partition and the line of a GPU.  The       *)
(* Polish words of the output are written without their diacritics.        *)
(***************************************************************************)
\* Partition entries with any of fstype, total, percent missing.
DiskEntries ==
    { [k \in {"device", "mountpoint"} \cup opt |-> v[k]] :
        opt \in SUBSET {"fstype", "total", "percent"},
        v \in [device : {PyStr("/dev/sda1")}, mountpoint : {PyStr("/")},
               fstype : {PyStr("ext4"), PyStr("")},
               total : {PyStr("476.94GB")},
               percent : {PyFloat(4530), PyFloat(0)}] }

\* GPU entries with any of the fields missing (key absent) or None.
GpuEntries ==
    { [k \in {"id"} \cup opt |-> v[k]] :
        opt \in SUBSET {"name", "load_percent", "memory_used", "memory_total",
                        "temperature_c"},
        v \in [id : {PyStr("0")}, name : {PyStr("GTX 1080")},
               load_percent : {PyNone, PyFloat(0), PyFloat(25), PyFloat(3750)},
               memory_used : {PyNone, PyStr("512.0MB")},
               memory_total : {PyNone, PyStr("8192.0MB")},
               temperature_c : {PyNone, PyFloat(0), PyFloat(6500)}] }

\* Lines 339-344: the fields as printed and the line.
DiskLine(p) ==
    LET dev    == GetOr(p, "device", PyStr("-"))
        fstype == Or(Get(p, "fstype"), PyStr("-"))
        total  == GetOr(p, "total", PyStr("-"))
        pct    == GetOr(p, "percent", PyStr("-"))
    IN  [total |-> Str(total), pct |-> Str(pct),
         line  |-> Str(dev) \o " typ: " \o Str(fstype) \o "  rozmiar: " \o Str(total)
                   \o "  zajete: " \o Str(pct) \o "%"]

\* Lines 378-384: the fields as printed and the line.
GpuLine(g) ==
    LET mem_used    == Get(g, "memory_used")
        mem_total   == Get(g, "memory_total")
        mem_used_s  == IF mem_used.kind # "none" THEN Str(mem_used) \o "MB" ELSE "-"
        mem_total_s == IF mem_total.kind # "none" THEN Str(mem_total) \o "MB" ELSE "-"
        load        == Or(Get(g, "load_percent"), PyFloat(0))
        temp        == Or(Get(g, "temperature_c"), PyStr("-"))
    IN  [load |-> Fmt1(load.hundredths), mem_used |-> mem_used_s,
         mem_total |-> mem_total_s, temp |-> Str(temp),
         line |-> Str(GetOr(g, "name", PyStr("-"))) \o "  | Obciazenie: "
                  \o Fmt1(load.hundredths) \o "% \nPamiec VRAM: " \o mem_used_s
                  \o " / " \o mem_total_s \o "  | Temp: " \o Str(temp) \o "C"]

RenderInit ==
    /\ pc = "render"
    /\ disk_entry \in DiskEntries
    /\ gpu_entry \in GpuEntries
    /\ rendered = Unset
    /\ SizeIdle /\ DiskIdle /\ ProcIdle /\ NetIdle /\ MainIdle

CallPrettyPrint ==
    /\ pc = "render"
    /\ pc' = "render_done"
    /\ rendered' = [raised |-> FALSE, disk |-> DiskLine(disk_entry),
                    gpu |-> GpuLine(gpu_entry)]
    /\ UNCHANGED <<disk_entry, gpu_entry, sizeVars, diskVars, procVars, netVars,
                   mainVars>>

RenderNext == CallPrettyPrint

SpecRender == RenderInit /\ [][RenderNext]_vars

(***************************************************************************)
(* collect_all and main                                                    *)
(***************************************************************************)
\* default of --top
TopDefault == 5

Sections ==
    {"basic_system", "uptime", "cpu", "memory", "disks", "network", "sensors",
     "gpu", "processes", "connections"}

\* The categories whose function lets an exception of its metrics query out.
Uncaught ==
    {"basic_system", "uptime", "cpu", "memory", "disks", "network", "processes"}

\* What the data sources do during one run: at most one of the queries that
\* are not guarded raises; every guarded or optional source on its own
\* raises, is absent, gives nothing, or works.
Environments ==
    [failing      : {{}} \cup { {c} : c \in Uncaught },
     distro       : BOOLEAN,
     cpu_freq     : {"ok", "raise"},
     cpuinfo      : {"absent", "raise", "ok"},
     temperatures : {"raise", "none", "ok"},
     fans         : {"raise", "none", "ok"},
     battery      : {"raise", "none", "ok"},
     gpu          : {"absent", "raise", "ok"},
     connections  : {"raise", "ok"}]

Arguments == [json : BOOLEAN, quiet : BOOLEAN, top : {TopDefault}]

Returns(v) == [raised |-> FALSE, value |-> v]

basic_system_info(e) ==
    IF "basic_system" \in e.failing THEN Raised("OSError")
    ELSE Returns([system |-> PyStr("Linux"), release |-> PyStr("6.1"),
                  machine |-> PyStr("x86_64"), user |-> PyStr("root")]
                 @@ (IF e.distro THEN [distro |-> PyStr("Debian GNU/Linux 12")]
                     ELSE <<>>))

uptime_info(e) ==
    IF "uptime" \in e.failing THEN Raised("OSError")
    ELSE Returns([boot_time |-> PyStr("2026-01-01T00:00:00"),
                  uptime_human |-> PyStr("1:00:00")])

cpu_info(e) ==
    IF "cpu" \in e.failing THEN Raised("OSError")
    ELSE Returns([physical_cores |-> PyStr("4"),
                  cpu_freq |-> IF e.cpu_freq = "ok"
                               THEN PyDict(<<"current_mhz", "min_mhz", "max_mhz">>)
                               ELSE PyNone,
                  cpu_total_usage_percent |-> PyFloat(1250),
                  detailed |-> IF e.cpuinfo = "ok"
                               THEN PyDict(<<"brand_raw", "arch", "bits", "flags">>)
                               ELSE PyNone])

memory_info(e) ==
    IF "memory" \in e.failing THEN Raised("OSError")
    ELSE Returns([total |-> PyStr(get_size(<<0, 0, 0, 16>>)),
                  used |-> PyStr(get_size(<<0, 0, 512, 3>>)),
                  percent |-> PyFloat(2190),
                  swap_total |-> PyStr(get_size(<<0>>))])

SamplePartitions ==
    <<[device |-> "/dev/sda1", mountpoint |-> "/", fstype |-> "ext4", opts |-> "rw",
       usage |-> [kind |-> "ok", total |-> <<0, 0, 0, 512>>, used |-> <<0, 0, 0, 128>>,
                  free |-> <<0, 0, 0, 384>>, percent |-> "25.0"]],
      [device |-> "/dev/sdb1", mountpoint |-> "/root", fstype |-> "ext4", opts |-> "rw",
       usage |-> [kind |-> "PermissionError"]]>>

disks_section(e) ==
    IF "disks" \in e.failing THEN Raised("OSError")
    ELSE disks_info(SamplePartitions, [kind |-> "none"])

SampleAddrs ==
    <<[name |-> "lo", addrs |-> <<[family |-> "AF_INET", address |-> "127.0.0.1"]>>],
      [name |-> "eth0", addrs |-> <<[family |-> "AF_INET", address |-> "192.168.1.5"]>>]>>

network_section(e) ==
    IF "network" \in e.failing THEN Raised("OSError")
    ELSE Returns(network_info(SampleAddrs, "value"))

\* Mutant: a failing sensor query leaves nothing in the section.
sensors_silent(e) ==
    (IF e.temperatures = "raise" THEN <<>>
     ELSE [temperatures |-> PyDict(IF e.temperatures = "ok" THEN <<"coretemp">> ELSE <<>>)])
    @@ (IF e.fans = "raise" THEN <<>>
        ELSE [fans |-> PyDict(IF e.fans = "ok" THEN <<"cpu_fan">> ELSE <<>>)])
    @@ (IF e.battery = "raise" THEN <<>>
        ELSE [battery |-> IF e.battery = "ok"
                          THEN PyDict(<<"percent", "secsleft", "power_plugged">>)
                          ELSE PyNone])

sensors_info(e) ==
    (IF e.temperatures = "raise" THEN [temperatures_error |-> PyStr("not supported")]
     ELSE [temperatures |-> PyDict(IF e.temperatures = "ok" THEN <<"coretemp">> ELSE <<>>)])
    @@ (IF e.fans = "raise" THEN [fans_error |-> PyStr("not supported")]
        ELSE [fans |-> PyDict(IF e.fans = "ok" THEN <<"cpu_fan">> ELSE <<>>)])
    @@ (IF e.battery = "raise" THEN [battery_error |-> PyStr("not supported")]
        ELSE [battery |-> IF e.battery = "ok"
                          THEN PyDict(<<"percent", "secsleft", "power_plugged">>)
                          ELSE PyNone])

gpu_info(e) ==
    CASE e.gpu = "absent" ->
            [available |-> FALSE, note |-> PyStr("GPUtil not installed.")]
      [] e.gpu = "raise" ->
            [available |-> FALSE, error |-> PyStr("NVML error")]
      [] e.gpu = "ok" ->
            [available |-> TRUE,
             gpus |-> <<[id |-> PyStr("0"), name |-> PyStr("GTX 1080"),
                         load_percent |-> PyFloat(3750),
                         memory_total |-> PyStr("8192.0MB"),
                         memory_used |-> PyStr("512.0MB"),
                         memory_free |-> PyStr("7680.0MB"),
                         memory_util_percent |-> PyFloat(625),
                         temperature_c |-> PyFloat(6500)]>>]

SampleProcs ==
    <<[status |-> "ok", cpu |-> 1, rss |-> 2048],
      [status |-> "AccessDenied", cpu |-> 0, rss |-> 0],
      [status |-> "ok", cpu |-> 0, rss |-> 512]>>

processes_section(e, n) ==
    IF "processes" \in e.failing THEN Raised("OSError")
    ELSE Returns(top_processes(SampleProcs, n))

running_services_and_connections(e) ==
    [listening_sockets |->
        IF e.connections = "ok"
        THEN <<[fd |-> PyStr("3"), laddr |-> PyStr("0.0.0.0:22"), raddr |-> PyNone]>>
        ELSE <<>>]

\* The value of each key of the dict literal of collect_all.
Section(c, e, a) ==
    CASE c = "basic_system" -> basic_system_info(e)
      [] c = "uptime" -> uptime_info(e)
      [] c = "cpu" -> cpu_info(e)
      [] c = "memory" -> memory_info(e)
      [] c = "disks" -> disks_section(e)
      [] c = "network" -> network_section(e)
      [] c = "sensors" -> Returns(sensors_info(e))
      [] c = "gpu" -> Returns(gpu_info(e))
      [] c = "processes" -> processes_section(e, a.top)
      [] c = "connections" -> Returns(running_services_and_connections(e))

\* The dict literal is built key by key; an exception in one call ends it.
collect_all(e, a) ==
    LET got == [c \in Sections |-> Section(c, e, a)]
    IN  IF \E c \in Sections : got[c].raised
        THEN Raised("OSError")
        ELSE Returns([c \in Sections |-> got[c].value]
                     @@ [generated_at |-> PyStr("2026-01-01T01:00:00")])

MainInit ==
    /\ pc = "main"
    /\ args \in Arguments
    /\ env \in Environments
    /\ report = Unset /\ file = Unset /\ trace = <<>>
    /\ SizeIdle /\ DiskIdle /\ ProcIdle /\ NetIdle /\ RenderIdle

\* report = collect_all(args); an exception ends the run with a traceback.
Collect ==
    /\ pc = "main"
    /\ report' = collect_all(env, args)
    /\ trace' = Append(trace, "collect")
    /\ pc' = IF report'.raised THEN "aborted" ELSE "collected"
    /\ UNCHANGED <<args, env, file, sizeVars, diskVars, procVars, netVars, renderVars>>

\* if not args.quiet: pretty_print(report)
Present ==
    /\ pc = "collected"
    /\ pc' = "presented"
    /\ trace' = IF ~args.quiet THEN Append(trace, "render") ELSE trace
    /\ UNCHANGED <<args, env, report, file, sizeVars, diskVars, procVars, netVars,
                   renderVars>>

\* if args.json: json.dump(report, f, ...)
Export ==
    /\ pc = "presented"
    /\ pc' = "exit"
    /\ file' = IF args.json THEN report.value ELSE file
    /\ trace' = IF args.json THEN Append(trace, "write") ELSE trace
    /\ UNCHANGED <<args, env, report, sizeVars, diskVars, procVars, netVars, renderVars>>

MainNext == Collect \/ Present \/ Export

SpecMain == MainInit /\ [][MainNext]_vars

(***************************************************************************)
(* Claims about get_size                                                   *)
(***************************************************************************)
UnitNames == <<"", "K", "M", "G", "T", "P", "E">>

\* A short digit sequence as a byte count of the enumerated length.
Pad(ds) == [i \in 1..MaxDigits |-> IF i <= Len(ds) THEN ds[i] ELSE 0]

\* Number of bits of a byte count.
BitCount(b) ==
    IF TopIndex(b) = 0 THEN 0 ELSE 10 * (TopIndex(b) - 1) + BitLen(b[TopIndex(b)])

\* The smallest unit index k with b < 1024^(k+1).
SmallestUnit(b) == IF TopIndex(b) = 0 THEN 0 ELSE TopIndex(b) - 1

\* The humanization the specification describes, on the exact byte count.
Humanized(b) ==
    Fmt2(b, SmallestUnit(b)) \o UnitNames[SmallestUnit(b) + 1] \o "B"

EndsWith(s, suffix) ==
    /\ Len(s) >= Len(suffix)
    /\ SubSeq(s, Len(s) - Len(suffix) + 1, Len(s)) = suffix

\* C6 as stated: for every non-negative byte count b, get_size(b) of
\* SystemDiagnosticsTool.py is the magnitude of b in the smallest of the units
\* "", K, M, G, T, P, E at which it is below 1024, to two decimals, followed by
\* the unit and "B".
C6_EveryByteCount ==
    size_tool # NoValue =>
        /\ SmallestUnit(bytes) < Len(UnitNames)
        /\ size_tool = Humanized(bytes)

\* C6 amended: the same for every byte count below 2^53 (the counts a float
\* holds exactly), with get_size(0) = "0.00B", get_size(1024) = "1.00KB",
\* get_size(1536) = "1.50KB" and get_size(1073741824) = "1.00GB".
C6_BelowMantissa ==
    size_tool # NoValue =>
        /\ BitCount(bytes) <= MantissaBits =>
              /\ SmallestUnit(bytes) < Len(UnitNames)
              /\ size_tool = Humanized(bytes)
        /\ bytes = Pad(<<0>>) => size_tool = "0.00B"
        /\ bytes = Pad(<<0, 1>>) => size_tool = "1.00KB"
        /\ bytes = Pad(<<512, 1>>) => size_tool = "1.50KB"
        /\ bytes = Pad(<<0, 0, 0, 1>>) => size_tool = "1.00GB"

\* get_size(1536) has returned "1.50KB".
C6_Witness == bytes = Pad(<<512, 1>>) /\ size_tool = "1.50KB"

\* C7: in both scripts get_size returns a string for every byte count, and a
\* count of 1024^6 or more is returned in the unit E.
C7_AlwaysAString ==
    (size_tool # NoValue /\ size_mini # NoValue) =>
        /\ size_tool # None
        /\ size_mini # None
        /\ TopIndex(bytes) >= Len(UnitNames) =>
              EndsWith(size_tool, "EB") /\ EndsWith(size_mini, "EB")

(***************************************************************************)
(* Claims about disks_info                                                 *)
(***************************************************************************)
UsageKeys == {"total", "used", "free", "percent"}

\* C4: when the usage queries that fail raise PermissionError, disks_info
\* returns one entry per partition, in the order enumerated; the entry of a
\* failing partition holds the error marker and none of total, used, free,
\* percent; the entry of any other partition holds all four and no marker.
C4_PermissionErrorIsMarked ==
    (pc = "disks_done"
        /\ \A i \in 1..Len(partitions) : partitions[i].usage.kind # "OSError") =>
        /\ ~disks.raised
        /\ Len(disks.value.partitions) = Len(partitions)
        /\ \A i \in 1..Len(partitions) :
              LET p == partitions[i]
                  e == disks.value.partitions[i]
              IN  /\ e.device = p.device /\ e.mountpoint = p.mountpoint
                  /\ p.usage.kind = "PermissionError" =>
                        /\ "error" \in DOMAIN e
                        /\ e.error = "PermissionError"
                        /\ UsageKeys \cap DOMAIN e = {}
                  /\ p.usage.kind = "ok" =>
                        /\ UsageKeys \subseteq DOMAIN e
                        /\ "error" \notin DOMAIN e
                        /\ e.total = get_size(p.usage.total)
                        /\ e.used = get_size(p.usage.used)
                        /\ e.free = get_size(p.usage.free)
                        /\ e.percent = p.usage.percent

\* disks_info has returned for a failing partition followed by a readable one.
C4_Witness ==
    /\ pc = "disks_done"
    /\ Len(partitions) >= 2
    /\ partitions[1].usage.kind = "PermissionError"
    /\ partitions[2].usage.kind = "ok"
    /\ ~disks.raised
    /\ "error" \in DOMAIN disks.value.partitions[1]
    /\ "total" \in DOMAIN disks.value.partitions[2]

(***************************************************************************)
(* Claims about top_processes                                              *)
(***************************************************************************)
\* The processes read successfully, by pid.
Readable == { i \in 1..Len(proc_table) : proc_table[i].status = "ok" }

\* Process a is ranked before process b: larger key, or equal key and
\* enumerated earlier.
Before(a, b, field) ==
    \/ proc_table[a][field] > proc_table[b][field]
    \/ proc_table[a][field] = proc_table[b][field] /\ a < b

\* list is the first min(top, number read) of the readable processes, ranked.
IsTopN(list, key, field) ==
    /\ Len(list) = IF top < Cardinality(Readable) THEN top ELSE Cardinality(Readable)
    /\ \A j \in 1..Len(list) :
          /\ list[j].pid \in Readable
          /\ list[j][key] = proc_table[list[j].pid][field]
    /\ \A j \in 1..(Len(list) - 1) : Before(list[j].pid, list[j+1].pid, field)
    /\ \A i \in Readable :
          \/ \E j \in 1..Len(list) : list[j].pid = i
          \/ \A j \in 1..Len(list) : Before(list[j].pid, i, field)

\* C5: top_processes(N) skips the processes that raise NoSuchProcess or
\* AccessDenied and returns, for CPU% and for resident memory, the first
\* min(N, processCount) of the others sorted descending, equal keys in
\* enumeration order; N = 0 yields two empty lists.
C5_TopNStableDescending ==
    pc = "procs_done" =>
        /\ IsTopN(processes.top_cpu, "cpu_percent", "cpu")
        /\ IsTopN(processes.top_memory, "memory_rss", "rss")
        /\ top = 0 => processes.top_cpu = <<>> /\ processes.top_memory = <<>>

\* top_processes has truncated a scan with a skipped process and a tie.
C5_Witness ==
    /\ pc = "procs_done"
    /\ Len(proc_table) = 3
    /\ proc_table[1].status = "AccessDenied"
    /\ proc_table[2].status = "ok" /\ proc_table[3].status = "ok"
    /\ proc_table[2].cpu = proc_table[3].cpu
    /\ proc_table[2].rss < proc_table[3].rss
    /\ top = 1
    /\ processes.top_cpu[1].pid = 2
    /\ processes.top_memory[1].pid = 3

(***************************************************************************)
(* Claims about get_primary_ipv4                                           *)
(***************************************************************************)
\* An address of the table that is IPv4 and not loopback.
IsRoutableIpv4(a) == a.family = "AF_INET" /\ ~StartsWith(a.address, "127.")

\* <<i, j>> is the first routable IPv4 address of the table, in table order.
IsFirstRoutable(i, j) ==
    /\ i \in 1..Len(if_addrs) /\ j \in 1..Len(if_addrs[i].addrs)
    /\ IsRoutableIpv4(if_addrs[i].addrs[j])
    /\ \A k \in 1..Len(if_addrs) : \A l \in 1..Len(if_addrs[k].addrs) :
          (k < i \/ (k = i /\ l < j)) => ~IsRoutableIpv4(if_addrs[k].addrs[l])

NoRoutableIpv4 ==
    \A i \in 1..Len(if_addrs) : \A j \in 1..Len(if_addrs[i].addrs) :
        ~IsRoutableIpv4(if_addrs[i].addrs[j])

TableNames == { if_addrs[i].name : i \in 1..Len(if_addrs) }

\* C2: an address get_primary_ipv4 takes from the table is the first one, in
\* table order, that is IPv4 and does not start with "127.", returned with
\* the name of its interface; [{lo:127.0.0.1}, {eth0:192.168.1.5}] yields
\* 192.168.1.5 / eth0.
C2_FirstRoutableIpv4 ==
    pc = "net_printed" =>
        /\ primary[2] \in TableNames =>
              \E i \in 1..Len(if_addrs) : \E j \in 1..Len(if_addrs[i].addrs) :
                  /\ IsFirstRoutable(i, j)
                  /\ primary[1] = if_addrs[i].addrs[j].address
                  /\ primary[2] = if_addrs[i].name
        /\ if_addrs = <<[name |-> "lo",
                         addrs |-> <<[family |-> "AF_INET", address |-> "127.0.0.1"]>>],
                        [name |-> "eth0",
                         addrs |-> <<[family |-> "AF_INET", address |-> "192.168.1.5"]>>]>>
              => primary[1] = "192.168.1.5" /\ primary[2] = "eth0"

\* C9: with no IPv4 non-loopback address in the table, get_primary_ipv4
\* returns the resolved host address if it does not start with "127.", and
\* otherwise no address and no interface name, printed as the "brak" line.
C9_HostnameFallback ==
    (pc = "net_printed" /\ NoRoutableIpv4) =>
        IF host.kind = "ok" /\ ~StartsWith(host.address, "127.")
        THEN /\ primary = <<host.address, "hostname", None>>
             /\ ipv4_line = "Adres IPv4: " \o host.address
        ELSE /\ primary = <<None, None, None>>
             /\ ipv4_line = "Adres IPv4: brak"

(***************************************************************************)
(* Claims about collect_all and main                                       *)
(***************************************************************************)
\* C1: a raised exception in the query of any one category does not keep
\* collect_all from returning a report that holds every section, with the
\* data of every category that did not fail.
C1_OneFailureIsAbsorbed ==
    pc # "main" =>
        /\ ~report.raised
        /\ Sections \subseteq DOMAIN report.value
        /\ \A c \in Sections \ env.failing :
              report.value[c] = Section(c, env, args).value

SensorKinds == {"temperatures", "fans", "battery"}

\* r holds every section key, and each optional source that is absent or
\* failed is recorded by a marker value.
HasAllSections(r) ==
    /\ Sections \subseteq DOMAIN r
    /\ "available" \in DOMAIN r.gpu
    /\ env.gpu = "ok" => r.gpu.available /\ "gpus" \in DOMAIN r.gpu
    /\ env.gpu = "absent" => ~r.gpu.available /\ "note" \in DOMAIN r.gpu
    /\ env.gpu = "raise" => ~r.gpu.available /\ "error" \in DOMAIN r.gpu
    /\ \A k \in SensorKinds :
          IF env[k] = "raise"
          THEN /\ (k \o "_error") \in DOMAIN r.sensors
               /\ r.sensors[k \o "_error"].kind = "str"
               /\ r.sensors[k \o "_error"].s = "not supported"
          ELSE /\ k \in DOMAIN r.sensors
               /\ Truthy(r.sensors[k]) <=> env[k] = "ok"
    /\ "listening_sockets" \in DOMAIN r.connections

\* C3: whatever the optional data sources do (GPU library absent or raising;
\* temperature, fan and battery queries raising, giving nothing or working),
\* collect_all returns a report, and the report and the file written by
\* --json hold every section key, an absent source being recorded by a
\* marker value.
C3_EverySectionPresent ==
    /\ (pc # "main" /\ env.failing = {}) => ~report.raised
    /\ (pc # "main" /\ ~report.raised) => HasAllSections(report.value)
    /\ IsSet(file) => HasAllSections(file)
    /\ (pc = "exit" /\ args.json) => IsSet(file) /\ file = report.value

\* The file has been written in a run without GPU library, with a failing
\* temperature query and no fans and no battery.
C3_Witness ==
    /\ pc = "exit"
    /\ IsSet(file)
    /\ env.gpu = "absent" /\ env.temperatures = "raise"
    /\ env.fans = "none" /\ env.battery = "none"
    /\ "temperatures_error" \in DOMAIN file.sensors
    /\ ~file.gpu.available

Count(tr, ev) == Cardinality({ i \in 1..Len(tr) : tr[i] = ev })
Place(tr, ev) == CHOOSE i \in 1..Len(tr) : tr[i] = ev

\* The order and the conditions of the calls of a run.
FlowAsDocumented ==
    /\ Count(trace, "collect") = 1 /\ trace[1] = "collect"
    /\ Count(trace, "render") = (IF args.quiet THEN 0 ELSE 1)
    /\ Count(trace, "write") = (IF args.json THEN 1 ELSE 0)
    /\ IsSet(file) <=> args.json
    /\ (~args.quiet /\ args.json) => Place(trace, "render") < Place(trace, "write")
    /\ IsSet(file) => ~report.raised /\ file = report.value

\* C8: in every run of main the report is collected exactly once and first,
\* the summary is rendered iff --quiet is absent, system_report.json is
\* written iff --json is given, rendering precedes the write, and the file
\* holds the report as collected.
C8_FlowOfEveryRun == pc \in {"exit", "aborted"} => FlowAsDocumented

\* The same for the runs in which collect_all returns.
FlowOfCompletedRuns == pc = "exit" => FlowAsDocumented

\* Neither consumer changes the report.
ReportIsReadOnly == [][pc # "main" => report' = report]_vars

(***************************************************************************)
(* Claims about the disk and GPU lines of pretty_print                     *)
(***************************************************************************)
Missing(d, k) == k \notin DOMAIN d \/ d[k].kind = "none"

DiskFieldsAsStated ==
    /\ rendered.disk.total =
          (IF Missing(disk_entry, "total") THEN "-" ELSE Str(disk_entry.total))
    /\ rendered.disk.pct =
          (IF Missing(disk_entry, "percent") THEN "-" ELSE Str(disk_entry.percent))
    /\ Contains(rendered.disk.line, "rozmiar: " \o rendered.disk.total \o "  ")
    /\ EndsWith(rendered.disk.line, "zajete: " \o rendered.disk.pct \o "%")

GpuMemoryAsStated ==
    /\ rendered.gpu.mem_used =
          (IF Missing(gpu_entry, "memory_used") THEN "-"
           ELSE Str(gpu_entry.memory_used) \o "MB")
    /\ rendered.gpu.mem_total =
          (IF Missing(gpu_entry, "memory_total") THEN "-"
           ELSE Str(gpu_entry.memory_total) \o "MB")
    /\ Contains(rendered.gpu.line,
                "VRAM: " \o rendered.gpu.mem_used \o " / " \o rendered.gpu.mem_total)
    /\ Contains(rendered.gpu.line, "Obciazenie: " \o rendered.gpu.load \o "%")
    /\ EndsWith(rendered.gpu.line, "Temp: " \o rendered.gpu.temp \o "C")

\* C10 as stated: rendering raises nothing, every missing numeric field of a
\* partition (total, percent) or a GPU (load_percent, memory_used,
\* memory_total, temperature_c) is printed as "-", every present one with its
\* own value.
C10_MissingIsDash ==
    pc = "render_done" =>
        /\ ~rendered.raised
        /\ DiskFieldsAsStated
        /\ GpuMemoryAsStated
        /\ rendered.gpu.load =
              (IF Missing(gpu_entry, "load_percent") THEN "-"
               ELSE Fmt1(gpu_entry.load_percent.hundredths))
        /\ rendered.gpu.temp =
              (IF Missing(gpu_entry, "temperature_c") THEN "-"
               ELSE Str(gpu_entry.temperature_c))

\* C10 amended: as stated, except that a missing load_percent is printed as
\* 0.0 and a temperature_c of 0 is printed as "-".
C10_MissingIsDashButLoad ==
    pc = "render_done" =>
        /\ ~rendered.raised
        /\ DiskFieldsAsStated
        /\ GpuMemoryAsStated
        /\ rendered.gpu.load =
              (IF Missing(gpu_entry, "load_percent") THEN "0.0"
               ELSE Fmt1(gpu_entry.load_percent.hundredths))
        /\ rendered.gpu.temp =
              (IF Missing(gpu_entry, "temperature_c") THEN "-"
               ELSE IF gpu_entry.temperature_c.hundredths = 0 THEN "-"
               ELSE Str(gpu_entry.temperature_c))

\* A partition without total and a GPU without load_percent have been
\* rendered next to a temperature that is present.
C10_Witness ==
    /\ pc = "render_done"
    /\ "total" \notin DOMAIN disk_entry
    /\ "load_percent" \notin DOMAIN gpu_entry
    /\ ~Missing(gpu_entry, "temperature_c")
    /\ rendered.disk.total = "-"
    /\ rendered.gpu.load = "0.0"
    /\ rendered.gpu.temp = "65.0"

====
